---- MODULE Spec2Model ----
(***************************************************************************)
(* Model of server.py: the music index (songs_cache, id_to_path) kept on   *)
(* the HTTP server object, the directory scan that fills it, id lookup,    *)
(* the path-checked audio streamer with Range support, and album art.      *)
(* The file system is the environment: files, symlinks and the music root  *)
(* come and go between the steps of a scan.                                *)
(***************************************************************************)
EXTENDS Integers, Sequences, FiniteSets, TLC

\* ------------------------------------------------------------------ bounds
MaxReqs == 3
MaxFsOps == 2
MaxWalkErrors == 1
MaxSize == 3
MaxStreamReqs == 2
MaxLinkOps == 5

\* server.py:412 and :464, the streaming chunk size
ChunkSize == 8192

\* ------------------------------------------------------------- file system
\* Directory entries under the music root, in the order rglob('*') yields them.
WalkOrder == <<"root/a.mp3", "root/d.mp3", "root/l.mp3", "root/n.txt", "root/sub/B.FLAC">>

RootEntries == {WalkOrder[i] : i \in 1..Len(WalkOrder)}

\* The one file outside the music root.
Outside == "/etc/x.mp3"

Entries == RootEntries \cup {Outside}

\* Symbolic links and their targets: l.mp3 leaves the root, d.mp3 stays inside.
Links == {"root/l.mp3", "root/d.mp3"}

LinkTarget(p) == IF p = "root/l.mp3" THEN Outside ELSE "root/a.mp3"

\* A request path that is lexically under the root but climbs out of it.
Traversal == "root/../etc/x.mp3"

ReqPaths == Entries \cup {Traversal}

\* Path.suffix and Path.stem
Suffix(p) ==
  CASE p = "root/sub/B.FLAC" -> ".FLAC"
    [] p = "root/n.txt" -> ".txt"
    [] OTHER -> ".mp3"

Stem(p) ==
  CASE p = "root/a.mp3" -> "a"
    [] p = "root/d.mp3" -> "d"
    [] p = "root/l.mp3" -> "l"
    [] p = "root/n.txt" -> "n"
    [] p = "root/sub/B.FLAC" -> "B"
    [] OTHER -> "x"

\* str.lower() on the suffixes that occur
Lower(s) == IF s = ".FLAC" THEN ".flac" ELSE s

supported_formats == {".mp3", ".flac", ".m4a", ".ogg", ".wav"}

\* What mutagen finds in a regular file.
\*   art: tags with an embedded picture     tagged: tags, no picture
\*   untagged: audio without tags           unrecognized: mutagen.File gives None
\*   corrupt: mutagen.File raises
Kinds == {"art", "tagged", "untagged", "unrecognized", "corrupt"}

KindsOf(p) ==
  IF p \in Links THEN {"link"}
  ELSE IF p = "root/a.mp3" THEN Kinds
  ELSE {"tagged"}

\* hashlib.sha1(...).hexdigest() of a path string: one digest per string.
Sha1(s) == <<"sha1", s>>

\* An id that is the digest of no path of the model.
BogusId == Sha1("unindexed")

\* The ids requests ask for: of files in and out of the root, and of no file.
Ids == {Sha1("root/a.mp3"), Sha1(Outside), BogusId}

\* Optional values: None, or Some(x).
None == <<>>

Some(x) == <<x>>

EmptyMap == [i \in {} |-> ""]

VARIABLES
  fs,           \* entry -> "absent", a kind of Kinds, or "link"
  dirExists,    \* the music root exists
  fsize,        \* regular file -> size in bytes
  songs_cache,  \* server.songs_cache: None or Some(list of song dicts)
  id_to_path,   \* server.id_to_path: id -> path
  pc,           \* per handler: where its request stands
  req,          \* per handler: the request it serves
  songs,        \* per handler: the scan's local list
  todo,         \* per handler: entries the walk has yet to visit
  resp,         \* per handler: the response of its last request
  listSeen,     \* history: the list last returned since the last GET /api/music/scan
  missSince,    \* history: an id miss has started a rescan since listSeen was returned
  nReq, nFs, nWalkErr   \* counters bounding requests, file system changes, walk errors

vars == <<fs, dirExists, fsize, songs_cache, id_to_path, pc, req, songs, todo, resp,
          listSeen, missSince, nReq, nFs, nWalkErr>>

envVars == <<fs, dirExists, fsize>>

srvVars == <<songs_cache, id_to_path, pc, req, songs, todo, resp, listSeen, missSince,
             nReq, nWalkErr>>

hist == <<listSeen, missSince>>

Handlers == {1, 2}

\* Path.resolve(): the canonical, symlink-resolved absolute path. A link that
\* is not there resolves to its own path.
Resolve(p) ==
  IF p \in Links /\ fs[p] = "link" THEN LinkTarget(p)
  ELSE IF p = Traversal THEN Outside
  ELSE p

\* Path.exists() and Path.is_file(): both follow symbolic links.
Exists(p) ==
  /\ fs[Resolve(p)] \notin {"absent", "link"}
  /\ (p = Traversal) => dirExists

\* The entries a directory listing of the root shows (dangling links included).
Listing == SelectSeq(WalkOrder, LAMBDA p : fs[p] # "absent")

\* The bytes mutagen would read at p: the kind of the file p leads to.
Content(p) == IF Exists(p) THEN fs[Resolve(p)] ELSE "absent"

\* relative_to(music_directory.resolve()) succeeds on a canonical path
InRoot(c) == c \in RootEntries

\* ---------------------------------------------------------------- metadata
\* has_album_art(audio_file)
has_album_art(k) == k = "art"

\* get_tag_value(...) or the default, for title, artist and album
TagTitle(p, k) == IF k \in {"art", "tagged"} THEN "Test" ELSE Stem(p)

TagArtist(k) == IF k \in {"art", "tagged"} THEN "A" ELSE "Unknown Artist"

TagAlbum(k) == IF k \in {"art", "tagged"} THEN "B" ELSE "Unknown Album"

\* int(audio_file.info.length or 0)
Duration(k) == 180

\* An extract_metadata that hashes the path as the walk yields it, unresolved
ExtractMetadataRawId(p) ==
  LET k == Content(p)
      song_id == Sha1(p)
  IN  IF k \in {"absent", "corrupt", "unrecognized"} THEN None
      ELSE Some([id |-> song_id,
                 title |-> TagTitle(p, k),
                 artist |-> TagArtist(k),
                 album |-> TagAlbum(k),
                 duration |-> Duration(k),
                 filepath |-> p,
                 albumArt |-> IF has_album_art(k)
                              THEN Some(<<"/api/album-art?id=", song_id>>) ELSE None])

\* extract_metadata(file_path): None when mutagen.File returns None or anything
\* raises inside the try (a vanished or corrupt file), else Some(song dict).
extract_metadata(p) ==
  LET k == Content(p)
      song_id == Sha1(Resolve(p))
  IN  IF k \in {"absent", "corrupt", "unrecognized"} THEN None
      ELSE Some([id |-> song_id,
                 title |-> TagTitle(p, k),
                 artist |-> TagArtist(k),
                 album |-> TagAlbum(k),
                 duration |-> Duration(k),
                 filepath |-> p,
                 albumArt |-> IF has_album_art(k)
                              THEN Some(<<"/api/album-art?id=", song_id>>) ELSE None])

\* extract_metadata catches every Exception itself (server.py:249), so the
\* except branch of the scan loop (server.py:197) is entered for no file.
extract_raises(p) == FALSE

\* The dict that except branch would append (server.py:200-210).
FallbackRecord(p) ==
  [id |-> Sha1(Resolve(p)), title |-> Stem(p), artist |-> "Unknown Artist",
   album |-> "Unknown Album", duration |-> 0, filepath |-> p, albumArt |-> None]

\* id_to_path[id] = path
MapPut(m, id, p) == [i \in DOMAIN m \cup {id} |-> IF i = id THEN p ELSE m[i]]

\* file_path.is_file() and file_path.suffix.lower() in supported_formats
IsCandidate(p) == Exists(p) /\ Lower(Suffix(p)) \in supported_formats

\* One iteration of the scan loop (server.py:188-211) on entry p: the records
\* it appends to the local list, and the map it leaves behind.
VisitSongs(p) ==
  IF ~IsCandidate(p) THEN <<>>
  ELSE IF extract_raises(p) THEN <<FallbackRecord(p)>>
  ELSE IF extract_metadata(p) # None THEN <<extract_metadata(p)[1]>>
  ELSE <<>>

VisitMap(m, p) ==
  IF VisitSongs(p) = <<>> THEN m ELSE MapPut(m, VisitSongs(p)[1].id, p)

\* ------------------------------------------------------------ Range header
\* range_header.replace('bytes=', '').split('-'): a list of pieces, each the
\* empty string, a decimal number, or text int() rejects.
PEmpty == [k |-> "empty", n |-> 0]

PNum(n) == [k |-> "num", n |-> n]

PBad == [k |-> "bad", n |-> 0]

Min(a, b) == IF a < b THEN a ELSE b

Max(a, b) == IF a > b THEN a ELSE b

\* int(range_match[i]) raises ValueError, or range_match[1] IndexError
RangeRaises(range_match) ==
  \/ Len(range_match) < 2
  \/ range_match[1].k = "bad"
  \/ range_match[2].k = "bad"

\* A handle_range_request that forgets min(file_size - 1, end)
RangeEndUnclamped(range_match, file_size) ==
  IF range_match[2].k = "empty" THEN file_size - 1 ELSE range_match[2].n

\* server.py:443-448
RangeStart(range_match) ==
  Max(0, IF range_match[1].k = "empty" THEN 0 ELSE range_match[1].n)

RangeEnd(range_match, file_size) ==
  Min(file_size - 1, IF range_match[2].k = "empty" THEN file_size - 1 ELSE range_match[2].n)

\* The chunks the loops write, each [off, len]: a read at pos of at most want
\* bytes returns what the file holds there.
RECURSIVE RangeChunks(_, _, _)
RangeChunks(pos, remaining, file_size) ==
  IF remaining <= 0 THEN <<>>
  ELSE LET chunk_size == Min(ChunkSize, remaining)
           got == Max(0, Min(chunk_size, file_size - pos))
       IN  IF got = 0 THEN <<>>
           ELSE <<[off |-> pos, len |-> got]>>
                  \o RangeChunks(pos + got, remaining - got, file_size)

\* A read loop that stops after its first chunk
ReadChunksOnce(pos, file_size) ==
  LET got == Max(0, Min(ChunkSize, file_size - pos))
  IN  IF got = 0 THEN <<>> ELSE <<[off |-> pos, len |-> got]>>

RECURSIVE ReadChunks(_, _)
ReadChunks(pos, file_size) ==
  LET got == Max(0, Min(ChunkSize, file_size - pos))
  IN  IF got = 0 THEN <<>>
      ELSE <<[off |-> pos, len |-> got]>> \o ReadChunks(pos + got, file_size)

\* ---------------------------------------------------------------- responses
\* status 0: no response written. clen and crange: Content-Length and
\* Content-Range (start, end, size). opened: the canonical path of the file
\* whose bytes were written. checked: the containment check passed.
\* scans: scans this request started. hadCache: a cache was installed when the
\* request arrived. fsAt: the file system change count when its scan began.
\* crashed: the handler ended in an uncaught exception. overlap: another
\* handler was scanning when the list was read. nodir: the scan of this request
\* found no music root. joined: another handler was scanning when the scan of
\* this request began. preCache, preMap: while the scan of this request runs,
\* the cache and the map as they were when it began.
NoResp ==
  [status |-> 0, cors |-> FALSE, listed |-> None, body |-> <<>>, clen |-> None,
   crange |-> None, acceptRanges |-> FALSE, opened |-> None, checked |-> FALSE,
   scans |-> 0, hadCache |-> FALSE, fsAt |-> 0, crashed |-> FALSE, overlap |-> FALSE,
   nodir |-> FALSE, joined |-> FALSE, preCache |-> None, preMap |-> EmptyMap]

\* send_error(code, ...): BaseHTTPRequestHandler writes no CORS header
ErrorResp(code) == [NoResp EXCEPT !.status = code]

\* handle_range_request (server.py:438-473)
handle_range_request(c, file_size, range_match) ==
  IF RangeRaises(range_match) THEN [ErrorResp(500) EXCEPT !.checked = TRUE]
  ELSE LET start == RangeStart(range_match)
           end == RangeEnd(range_match, file_size)
           content_length == end - start + 1
       IN  [NoResp EXCEPT !.status = 206, !.cors = TRUE, !.clen = Some(content_length),
                          !.crange = Some(<<start, end, file_size>>),
                          !.acceptRanges = TRUE, !.opened = Some(c), !.checked = TRUE,
                          !.body = RangeChunks(start, content_length, file_size)]

\* A serve_music_file_direct that tests the path as written, unresolved
ServeDirectUnresolved(p, range) ==
  IF ~Exists(p) THEN ErrorResp(404)
  ELSE IF p \notin RootEntries \cup {Traversal} THEN ErrorResp(403)
  ELSE LET c == Resolve(p)
           file_size == fsize[c]
       IN  IF range # None THEN handle_range_request(c, file_size, range[1])
           ELSE [NoResp EXCEPT !.status = 200, !.cors = TRUE, !.clen = Some(file_size),
                               !.acceptRanges = TRUE, !.opened = Some(c),
                               !.checked = TRUE, !.body = ReadChunks(0, file_size)]

\* A serve_music_file_direct without the existence test: stat() raises on a
\* missing file and the handler answers 500
ServeDirectNoExists(p, range) ==
  IF ~Exists(p) THEN ErrorResp(500)
  ELSE IF ~InRoot(Resolve(p)) THEN ErrorResp(403)
  ELSE LET c == Resolve(p)
           file_size == fsize[c]
       IN  IF range # None THEN handle_range_request(c, file_size, range[1])
           ELSE [NoResp EXCEPT !.status = 200, !.cors = TRUE, !.clen = Some(file_size),
                               !.acceptRanges = TRUE, !.opened = Some(c),
                               !.checked = TRUE, !.body = ReadChunks(0, file_size)]

\* serve_music_file_direct (server.py:351-423); range is None without a Range
\* header, else Some(range_match)
serve_music_file_direct(p, range) ==
  IF ~Exists(p) THEN ErrorResp(404)
  ELSE IF ~InRoot(Resolve(p)) THEN ErrorResp(403)
  ELSE LET c == Resolve(p)
           file_size == fsize[c]
       IN  IF range # None THEN handle_range_request(c, file_size, range[1])
           ELSE [NoResp EXCEPT !.status = 200, !.cors = TRUE, !.clen = Some(file_size),
                               !.acceptRanges = TRUE, !.opened = Some(c),
                               !.checked = TRUE, !.body = ReadChunks(0, file_size)]

\* serve_album_art from server.py:305 on, for the path the map gave
ArtResponse(p) ==
  LET k == Content(p)
  IN  IF k \in {"absent", "corrupt"} THEN ErrorResp(500)
      ELSE IF k = "art" THEN [NoResp EXCEPT !.status = 200, !.cors = TRUE]
      ELSE ErrorResp(404)


\* ------------------------------------------------------------------ requests
\* Range headers the index-level specifications send.
FewRanges == {None, Some(<<PNum(1), PEmpty>>)}

NoReq == [kind |-> "none", id |-> BogusId, path |-> "", range |-> None]

Req(kind, id, path, range) == [kind |-> kind, id |-> id, path |-> path, range |-> range]

\* _ensure_server_attributes (server.py:34-41) on a fresh server object
Init ==
  /\ fs = [p \in Entries |-> "absent"]
  /\ dirExists = TRUE
  /\ fsize = [p \in Entries \ Links |->
                CASE p = "root/a.mp3" -> 3
                  [] p = "root/sub/B.FLAC" -> 2 * ChunkSize + 1
                  [] p = "root/n.txt" -> 0
                  [] OTHER -> 2]
  /\ songs_cache = None
  /\ id_to_path = EmptyMap
  /\ pc = [h \in Handlers |-> "idle"]
  /\ req = [h \in Handlers |-> NoReq]
  /\ songs = [h \in Handlers |-> <<>>]
  /\ todo = [h \in Handlers |-> <<>>]
  /\ resp = [h \in Handlers |-> NoResp]
  /\ listSeen = None
  /\ missSince = FALSE
  /\ nReq = 0
  /\ nFs = 0
  /\ nWalkErr = 0

\* ------------------------------------------------------- environment actions
AddEntry(p, k) ==
  /\ nFs < MaxFsOps
  /\ fs[p] = "absent"
  /\ k \in KindsOf(p)
  /\ InRoot(p) => dirExists
  /\ fs' = [fs EXCEPT ![p] = k]
  /\ nFs' = nFs + 1
  /\ UNCHANGED <<dirExists, fsize, srvVars>>

RemoveEntry(p) ==
  /\ nFs < MaxFsOps
  /\ fs[p] # "absent"
  /\ fs' = [fs EXCEPT ![p] = "absent"]
  /\ nFs' = nFs + 1
  /\ UNCHANGED <<dirExists, fsize, srvVars>>

\* The music root is removed with all it holds, or created again.
RemoveDir ==
  /\ nFs < MaxFsOps
  /\ dirExists
  /\ dirExists' = FALSE
  /\ fs' = [p \in Entries |-> IF InRoot(p) THEN "absent" ELSE fs[p]]
  /\ nFs' = nFs + 1
  /\ UNCHANGED <<fsize, srvVars>>

CreateDir ==
  /\ nFs < MaxFsOps
  /\ ~dirExists
  /\ dirExists' = TRUE
  /\ nFs' = nFs + 1
  /\ UNCHANGED <<fs, fsize, srvVars>>

Env ==
  \/ \E p \in Entries : \E k \in Kinds \cup {"link"} : AddEntry(p, k)
  \/ \E p \in Entries : RemoveEntry(p)
  \/ RemoveDir
  \/ CreateDir

\* ------------------------------------------------------------ handler steps
\* do_GET takes a request (server.py:43-90)
Accept(h, r) ==
  /\ pc[h] = "idle"
  /\ nReq < MaxReqs
  /\ nReq' = nReq + 1
  /\ req' = [req EXCEPT ![h] = r]

\* The request is answered: the handler is idle again, its locals gone.
Finish(h, response) ==
  /\ resp' = [resp EXCEPT ![h] = response]
  /\ pc' = [pc EXCEPT ![h] = "idle"]
  /\ songs' = [songs EXCEPT ![h] = <<>>]
  /\ todo' = [todo EXCEPT ![h] = <<>>]

\* Where a handler goes once scan_music_directory has stored its result.
AfterScan(kind) == IF kind \in {"list", "scan"} THEN "scan_ret" ELSE "lookup"

\* Another handler is inside a scan.
OtherScanning(h) == \E g \in Handlers \ {h} : pc[g] \in {"walk", "nodir_map"}

\* scan_music_directory past the cache test (server.py:175-188): a missing
\* root stores an empty cache at once, else the walk starts on the listing.
BeginScan(h, kind, hadCache) ==
  /\ resp' = [resp EXCEPT ![h] = [NoResp EXCEPT !.scans = 1, !.hadCache = hadCache,
                                                 !.fsAt = nFs, !.nodir = ~dirExists,
                                                 !.joined = OtherScanning(h),
                                                 !.preCache = songs_cache,
                                                 !.preMap = id_to_path]]
  /\ songs' = [songs EXCEPT ![h] = <<>>]
  /\ IF ~dirExists
     THEN /\ songs_cache' = Some(<<>>)
          /\ todo' = [todo EXCEPT ![h] = <<>>]
          /\ pc' = [pc EXCEPT ![h] = "nodir_map"]
     ELSE /\ songs_cache' = songs_cache
          /\ todo' = [todo EXCEPT ![h] = Listing]
          /\ pc' = [pc EXCEPT ![h] = "walk"]
  /\ UNCHANGED id_to_path

\* The 200 of handle_music_list and handle_music_scan with the list returned
ListResponse(h, cache, scans, hadCache) ==
  [NoResp EXCEPT !.status = 200, !.cors = TRUE, !.listed = cache,
                 !.scans = scans, !.hadCache = hadCache, !.overlap = OtherScanning(h)]

\* A handle_music_list that takes an empty cached list for no cache
ListReqTruthy(h) ==
  /\ Accept(h, Req("list", BogusId, "", None))
  /\ IF songs_cache # None /\ songs_cache # Some(<<>>)
     THEN /\ Finish(h, ListResponse(h, songs_cache, 0, TRUE))
          /\ listSeen' = songs_cache
          /\ missSince' = FALSE
          /\ UNCHANGED <<songs_cache, id_to_path>>
     ELSE /\ BeginScan(h, "list", songs_cache # None)
          /\ UNCHANGED hist
  /\ UNCHANGED <<envVars, nFs, nWalkErr>>

\* A handle_music_list that scans with force=True
ListReqForce(h) ==
  /\ Accept(h, Req("list", BogusId, "", None))
  /\ BeginScan(h, "list", songs_cache # None)
  /\ UNCHANGED <<hist, envVars, nFs, nWalkErr>>

\* GET /api/music: handle_music_list, scan_music_directory(force=False)
ListReq(h) ==
  /\ Accept(h, Req("list", BogusId, "", None))
  /\ IF songs_cache # None
     THEN /\ Finish(h, ListResponse(h, songs_cache, 0, TRUE))
          /\ listSeen' = songs_cache
          /\ missSince' = FALSE
          /\ UNCHANGED <<songs_cache, id_to_path>>
     ELSE /\ BeginScan(h, "list", FALSE)
          /\ UNCHANGED hist
  /\ UNCHANGED <<envVars, nFs, nWalkErr>>

\* GET /api/music/scan: handle_music_scan, scan_music_directory(force=True)
ScanReq(h) ==
  /\ Accept(h, Req("scan", BogusId, "", None))
  /\ BeginScan(h, "scan", songs_cache # None)
  /\ listSeen' = None
  /\ missSince' = FALSE
  /\ UNCHANGED <<envVars, nFs, nWalkErr>>

\* A serve_music_file that rescans without testing the map first
ByIdReqAlwaysScan(h, id, range) ==
  /\ Accept(h, Req("byid", id, "", range))
  /\ BeginScan(h, "byid", songs_cache # None)
  /\ missSince' = (listSeen # None)
  /\ UNCHANGED <<listSeen, envVars, nFs, nWalkErr>>

\* GET /api/music/{id}: serve_music_file up to the membership test (server.py:430)
ByIdReq(h, id, range) ==
  /\ Accept(h, Req("byid", id, "", range))
  /\ IF id \in DOMAIN id_to_path
     THEN /\ pc' = [pc EXCEPT ![h] = "lookup"]
          /\ resp' = [resp EXCEPT ![h] = NoResp]
          /\ UNCHANGED <<songs_cache, id_to_path, songs, todo, hist>>
     ELSE /\ BeginScan(h, "byid", songs_cache # None)
          /\ missSince' = (listSeen # None)
          /\ UNCHANGED listSeen
  /\ UNCHANGED <<envVars, nFs, nWalkErr>>

\* GET /api/album-art?id=: serve_album_art up to the first lookup (server.py:295)
ArtReq(h, id) ==
  /\ Accept(h, Req("art", id, "", None))
  /\ IF id \in DOMAIN id_to_path
     THEN /\ Finish(h, ArtResponse(id_to_path[id]))
          /\ UNCHANGED <<songs_cache, id_to_path, hist>>
     ELSE /\ BeginScan(h, "art", songs_cache # None)
          /\ missSince' = (listSeen # None)
          /\ UNCHANGED listSeen
  /\ UNCHANGED <<envVars, nFs, nWalkErr>>

\* GET /api/music/file?path=: 400 without a path (server.py:66-72)
FileReq(h, path, range) ==
  /\ Accept(h, Req("file", BogusId, path, range))
  /\ Finish(h, IF path = "" THEN ErrorResp(400) ELSE serve_music_file_direct(path, range))
  /\ UNCHANGED <<envVars, songs_cache, id_to_path, hist, nFs, nWalkErr>>

\* GET /music/...: music_directory / relative_path (server.py:82-87)
MusicReq(h, path, range) ==
  /\ Accept(h, Req("music", BogusId, path, range))
  /\ Finish(h, serve_music_file_direct(path, range))
  /\ UNCHANGED <<envVars, songs_cache, id_to_path, hist, nFs, nWalkErr>>

\* A missing-root branch that leaves the map as it is
NoDirMapKeep(h) ==
  /\ pc[h] = "nodir_map"
  /\ pc' = [pc EXCEPT ![h] = AfterScan(req[h].kind)]
  /\ UNCHANGED <<envVars, songs_cache, id_to_path, req, songs, todo, resp, hist, nReq, nFs,
                 nWalkErr>>

\* server.py:182, the second store of the missing-root branch
NoDirMap(h) ==
  /\ pc[h] = "nodir_map"
  /\ id_to_path' = EmptyMap
  /\ pc' = [pc EXCEPT ![h] = AfterScan(req[h].kind)]
  /\ UNCHANGED <<envVars, songs_cache, req, songs, todo, resp, hist, nReq, nFs, nWalkErr>>

\* A scan loop that appends to the installed list itself
VisitInPlace(h) ==
  /\ pc[h] = "walk"
  /\ todo[h] # <<>>
  /\ songs' = [songs EXCEPT ![h] = @ \o VisitSongs(Head(todo[h]))]
  /\ songs_cache' = Some(songs'[h])
  /\ id_to_path' = VisitMap(id_to_path, Head(todo[h]))
  /\ todo' = [todo EXCEPT ![h] = Tail(@)]
  /\ UNCHANGED <<envVars, pc, req, resp, hist, nReq, nFs, nWalkErr>>

\* One iteration of the loop at server.py:188
Visit(h) ==
  /\ pc[h] = "walk"
  /\ todo[h] # <<>>
  /\ songs' = [songs EXCEPT ![h] = @ \o VisitSongs(Head(todo[h]))]
  /\ id_to_path' = VisitMap(id_to_path, Head(todo[h]))
  /\ todo' = [todo EXCEPT ![h] = Tail(@)]
  /\ UNCHANGED <<envVars, songs_cache, pc, req, resp, hist, nReq, nFs, nWalkErr>>

\* server.py:215, the loop is over: the local list becomes the cache
Install(h) ==
  /\ pc[h] = "walk"
  /\ todo[h] = <<>>
  /\ songs_cache' = Some(songs[h])
  /\ pc' = [pc EXCEPT ![h] = AfterScan(req[h].kind)]
  /\ UNCHANGED <<envVars, id_to_path, req, songs, todo, resp, hist, nReq, nFs, nWalkErr>>

\* The directory iteration raises an OSError part-way: handle_music_list,
\* handle_music_scan and serve_album_art answer 500, serve_music_file has no
\* try and ends in the exception.
WalkFail(h) ==
  /\ pc[h] = "walk"
  /\ nWalkErr < MaxWalkErrors
  /\ nWalkErr' = nWalkErr + 1
  /\ Finish(h, IF req[h].kind = "byid"
               THEN [NoResp EXCEPT !.crashed = TRUE, !.scans = resp[h].scans,
                                   !.hadCache = resp[h].hadCache]
               ELSE [ErrorResp(500) EXCEPT !.scans = resp[h].scans,
                                           !.hadCache = resp[h].hadCache])
  /\ UNCHANGED <<envVars, songs_cache, id_to_path, req, hist, nReq, nFs>>

\* return self.server.songs_cache (server.py:183, 216) and the caller's 200
ScanRet(h) ==
  /\ pc[h] = "scan_ret"
  /\ Finish(h, [ListResponse(h, songs_cache, resp[h].scans, resp[h].hadCache)
                  EXCEPT !.nodir = resp[h].nodir, !.joined = resp[h].joined])
  /\ IF req[h].kind = "list"
     THEN listSeen' = songs_cache /\ missSince' = FALSE
     ELSE UNCHANGED hist
  /\ UNCHANGED <<envVars, songs_cache, id_to_path, req, nReq, nFs, nWalkErr>>

\* The lookup after the membership test or the rescan: server.py:432-436 for
\* serve_music_file, server.py:299-349 for serve_album_art
LookupResponse(r) ==
  IF r.id \notin DOMAIN id_to_path THEN ErrorResp(404)
  ELSE IF r.kind = "byid" THEN serve_music_file_direct(id_to_path[r.id], r.range)
  ELSE ArtResponse(id_to_path[r.id])

Lookup(h) ==
  /\ pc[h] = "lookup"
  /\ Finish(h, [LookupResponse(req[h]) EXCEPT !.scans = resp[h].scans,
                                              !.hadCache = resp[h].hadCache,
                                              !.joined = resp[h].joined])
  /\ UNCHANGED <<envVars, songs_cache, id_to_path, req, hist, nReq, nFs, nWalkErr>>

\* The steps of a scan in progress
ScanStep(h) ==
  \/ NoDirMap(h)
  \/ Visit(h)
  \/ Install(h)
  \/ WalkFail(h)

\* Requests against the index: list, rescan, stream by id, album art, and a
\* stream by path.
IndexReq(h) ==
  \/ ListReq(h)
  \/ ScanReq(h)
  \/ \E id \in Ids : ByIdReq(h, id, None)
  \/ \E id \in Ids : ArtReq(h, id)
  \/ FileReq(h, "root/a.mp3", None)

\* HTTPServer (server.py:608) serves one request at a time on one thread.
Next == Env \/ IndexReq(1) \/ ScanStep(1) \/ ScanRet(1) \/ Lookup(1)

Spec == Init /\ [][Next]_vars

\* The three audio routes with every request path, in and out of the root.
StreamReq(h) ==
  \/ \E id \in Ids : \E range \in FewRanges : ByIdReq(h, id, range)
  \/ \E path \in ReqPaths \cup {""} : \E range \in FewRanges : FileReq(h, path, range)
  \/ \E path \in ReqPaths : \E range \in FewRanges : MusicReq(h, path, range)

NextStream ==
  \/ Env
  \/ nReq < MaxStreamReqs /\ StreamReq(1)
  \/ ScanStep(1)
  \/ Lookup(1)

SpecStream == Init /\ [][NextStream]_vars

\* The handler class under a threading server, one thread per request as the
\* design's concurrency model has it: the steps of two requests interleave.
\* Thread 1 takes list and rescan requests, thread 2 rescan requests and
\* streams of an unknown id; two tagged files and the root come and go.
ThreadedReq ==
  \/ ListReq(1)
  \/ ScanReq(1)
  \/ ScanReq(2)
  \/ ByIdReq(2, BogusId, None)

ThreadedEnv ==
  \/ \E p \in {"root/a.mp3", "root/sub/B.FLAC"} : AddEntry(p, "tagged")
  \/ \E p \in {"root/a.mp3", "root/sub/B.FLAC"} : RemoveEntry(p)
  \/ RemoveDir

NextThreaded ==
  \/ ThreadedEnv
  \/ ThreadedReq
  \/ \E h \in Handlers : ScanStep(h) \/ ScanRet(h) \/ Lookup(h)

SpecThreaded == Init /\ [][NextThreaded]_vars

\* Range arithmetic: one readable file of any small size, or of a size about
\* the chunk size, and every Range header over a few numbers.
RangeSizes == 0..MaxSize \cup {ChunkSize, ChunkSize + 1, 2 * ChunkSize + 1}

RangeNums == 0..(MaxSize + 1) \cup {ChunkSize - 1, ChunkSize, 2 * ChunkSize}

Pieces == {PEmpty, PBad} \cup {PNum(n) : n \in RangeNums}

AllRanges ==
  {None} \cup {Some(<<a>>) : a \in Pieces}
         \cup {Some(<<a, b>>) : a \in Pieces, b \in Pieces}
         \cup {Some(<<PNum(0), PNum(1), PNum(2)>>)}

InitRange ==
  /\ fs = [p \in Entries |-> IF p = "root/a.mp3" THEN "tagged" ELSE "absent"]
  /\ dirExists = TRUE
  /\ \E size \in RangeSizes :
       fsize = [p \in Entries \ Links |-> IF p = "root/a.mp3" THEN size ELSE 0]
  /\ songs_cache = None
  /\ id_to_path = EmptyMap
  /\ pc = [h \in Handlers |-> "idle"]
  /\ req = [h \in Handlers |-> NoReq]
  /\ songs = [h \in Handlers |-> <<>>]
  /\ todo = [h \in Handlers |-> <<>>]
  /\ resp = [h \in Handlers |-> NoResp]
  /\ listSeen = None
  /\ missSince = FALSE
  /\ nReq = 0
  /\ nFs = 0
  /\ nWalkErr = 0

NextRange == \E range \in AllRanges : FileReq(1, "root/a.mp3", range)

SpecRange == InitRange /\ [][NextRange]_vars

\* One file and a symbolic link to it, created, deleted and created again
\* over a longer run of file system changes made between requests, under
\* list, rescan and stream-by-id requests for the file's id.
AddEntryUpTo(p, k, max) ==
  /\ nFs < max
  /\ fs[p] = "absent"
  /\ dirExists
  /\ fs' = [fs EXCEPT ![p] = k]
  /\ nFs' = nFs + 1
  /\ UNCHANGED <<dirExists, fsize, srvVars>>

RemoveEntryUpTo(p, max) ==
  /\ nFs < max
  /\ fs[p] # "absent"
  /\ fs' = [fs EXCEPT ![p] = "absent"]
  /\ nFs' = nFs + 1
  /\ UNCHANGED <<dirExists, fsize, srvVars>>

LinkEnv ==
  /\ \A h \in Handlers : pc[h] = "idle"
  /\ \/ \E k \in {"tagged", "untagged"} : AddEntryUpTo("root/a.mp3", k, MaxLinkOps)
     \/ AddEntryUpTo("root/d.mp3", "link", MaxLinkOps)
     \/ \E p \in {"root/a.mp3", "root/d.mp3"} : RemoveEntryUpTo(p, MaxLinkOps)

LinkReq ==
  \/ ListReq(1)
  \/ ScanReq(1)
  \/ \E range \in FewRanges : ByIdReq(1, Sha1("root/a.mp3"), range)

\* The root is never removed here, so the scan has no missing-root step.
NextLinks ==
  \/ LinkEnv
  \/ LinkReq
  \/ Visit(1) \/ Install(1) \/ WalkFail(1)
  \/ ScanRet(1)
  \/ Lookup(1)

SpecLinks == Init /\ [][NextLinks]_vars


\* ------------------------------------------------------------------- claims
\* The ids of the records of the cached song sequence (none when no cache is
\* installed).
CacheIds ==
  IF songs_cache = None THEN {}
  ELSE {songs_cache[1][i].id : i \in 1..Len(songs_cache[1])}

NoScanInProgress == \A h \in Handlers : pc[h] \notin {"walk", "nodir_map"}

\* C1: whenever no scan is in progress, the keys of id_to_path are exactly the
\* ids of the records of the cached song sequence. Stated for the runs in
\* which no directory walk has raised, the requests and file changes the claim
\* names; the code breaks it there.
MapMatchesCache ==
  (NoScanInProgress /\ nWalkErr = 0) => DOMAIN id_to_path = CacheIds

\* Handler h runs one iteration of the scan loop in this step.
VisitStep(h) ==
  /\ pc[h] = "walk"
  /\ pc'[h] = "walk"
  /\ todo[h] # <<>>
  /\ todo'[h] = Tail(todo[h])

\* C2: a supported file whose metadata extraction fails (mutagen returns
\* nothing, or raises) gets exactly one record in the scan's list, with the
\* fallback fields, and its id enters id_to_path.
FallbackOnFailure ==
  [][\A h \in Handlers :
       (/\ VisitStep(h)
        /\ IsCandidate(Head(todo[h]))
        /\ Content(Head(todo[h])) \in {"unrecognized", "corrupt"})
       => /\ songs'[h] = Append(songs[h], FallbackRecord(Head(todo[h])))
          /\ Sha1(Resolve(Head(todo[h]))) \in DOMAIN id_to_path']_vars

\* How many records of sq are for path p
RecordsFor(sq, p) == Cardinality({i \in 1..Len(sq) : sq[i].filepath = p})

\* Handler h has finished a scan during which the file system did not change.
ScannedUnchanged(h) ==
  /\ pc[h] \in {"scan_ret", "lookup"}
  /\ resp[h].scans = 1
  /\ resp[h].fsAt = nFs

\* C3: a scan installs exactly one record per file with a supported extension
\* (compared case-insensitively) and none for any other file.
OneRecordPerSupportedFile ==
  \A h \in Handlers :
    ScannedUnchanged(h) =>
      /\ songs_cache = Some(songs[h])
      /\ Len(songs[h]) = Cardinality({p \in RootEntries : IsCandidate(p)})
      /\ \A p \in RootEntries :
           RecordsFor(songs[h], p) = IF IsCandidate(p) THEN 1 ELSE 0


\* Handler h takes a new request in this step.
Accepted(h) ==
  /\ pc[h] = "idle"
  /\ nReq' = nReq + 1
  /\ \A g \in Handlers \ {h} : pc'[g] = pc[g] /\ req'[g] = req[g] /\ resp'[g] = resp[g]

IsAudio(r) == r.kind \in {"byid", "file", "music"}

\* C4: an audio response of any route with status 200 or 206 has passed the
\* containment check, and the file whose bytes it wrote has its canonical path
\* under the music root.
StreamsStayInRoot ==
  \A h \in Handlers :
    (IsAudio(req[h]) /\ (resp[h].status \in {200, 206} \/ resp[h].body # <<>>)) =>
      /\ resp[h].checked
      /\ resp[h].opened # None
      /\ InRoot(resp[h].opened[1])

\* An id the map sends to a symbolic link that stays in the root was streamed.
StreamsStayInRootWitness ==
  \E h \in Handlers :
    /\ pc[h] = "idle"
    /\ req[h].kind = "byid"
    /\ resp[h].status \in {200, 206}
    /\ resp[h].body # <<>>
    /\ id_to_path[req[h].id] \in Links

\* C5: a path-based stream request for a path that resolves outside the music
\* root is answered 403, whether or not a file exists there.
OutsideIs403 ==
  \A h \in Handlers :
    (/\ pc[h] = "idle"
     /\ req[h].kind \in {"file", "music"}
     /\ req[h].path \in {Outside, Traversal})
    => resp[h].status = 403

ListDone(h) ==
  /\ Accepted(h) \/ pc[h] = "scan_ret"
  /\ req'[h].kind = "list"
  /\ pc'[h] = "idle"
  /\ resp'[h].status = 200

ListScansOnlyUninstalled ==
  [][\A h \in Handlers :
       (Accepted(h) /\ req'[h].kind = "list") =>
         IF songs_cache = None
         THEN /\ resp'[h].scans = 1
              /\ pc'[h] \in {"walk", "nodir_map"}
         ELSE /\ pc'[h] = "idle"
              /\ resp'[h].status = 200
              /\ resp'[h].scans = 0
              /\ resp'[h].listed = songs_cache
              /\ UNCHANGED <<songs_cache, id_to_path>>]_vars

\* What a scan of the file system as it is now would collect
RECURSIVE ScanOf(_)
ScanOf(entries) ==
  IF entries = <<>> THEN <<>> ELSE VisitSongs(Head(entries)) \o ScanOf(Tail(entries))

\* A list request returned the installed empty list without scanning although
\* the directory now holds a readable supported file.
ListScansOnlyUninstalledWitness ==
  \E h \in Handlers :
    /\ pc[h] = "idle"
    /\ req[h].kind = "list"
    /\ resp[h].status = 200
    /\ resp[h].scans = 0
    /\ resp[h].listed = Some(<<>>)
    /\ ScanOf(Listing) # <<>>

\* C9 as stated: a list request returns the list the previous one returned
\* unless a GET /api/music/scan came in between.
ListsAgreeUntilExplicitRescan ==
  [][\A h \in Handlers :
       (ListDone(h) /\ listSeen # None) => resp'[h].listed = listSeen]_vars

\* C9 amended: a list request returns the list the previous one returned
\* unless a GET /api/music/scan, or a stream-by-id or artwork request for an id
\* missing from the map, came in between.
ListsAgreeUntilAnyRescan ==
  [][\A h \in Handlers :
       (ListDone(h) /\ listSeen # None /\ ~missSince) => resp'[h].listed = listSeen]_vars

\* A third or later request, a list, returned the cached list although the
\* directory has changed and a scan now would collect something else.
ListsAgreeWitness ==
  \E h \in Handlers :
    /\ pc[h] = "idle"
    /\ req[h].kind = "list"
    /\ resp[h].status = 200
    /\ resp[h].scans = 0
    /\ nReq >= 3
    /\ ~missSince
    /\ resp[h].listed # Some(<<>>)
    /\ resp[h].listed # Some(ScanOf(Listing))

\* The chunks of body are the bytes at offsets a..e of the file, in order.
BodyIs(body, a, e) ==
  /\ body # <<>>
  /\ body[1].off = a
  /\ \A i \in 1..Len(body) : body[i].len >= 1 /\ body[i].len <= ChunkSize
  /\ \A i \in 1..(Len(body) - 1) : body[i + 1].off = body[i].off + body[i].len
  /\ body[Len(body)].off + body[Len(body)].len - 1 = e

\* The request of handler h has a Range header bytes=a-b, either side
\* possibly omitted, with 0 <= a <= b and a < S for the size S of its file.
RangeA(r) == IF r.range[1][1].k = "empty" THEN 0 ELSE r.range[1][1].n

RangeB(r, S) == IF r.range[1][2].k = "empty" THEN S - 1 ELSE r.range[1][2].n

GoodRange(r, S) ==
  /\ r.range # None
  /\ Len(r.range[1]) = 2
  /\ r.range[1][1].k # "bad"
  /\ r.range[1][2].k # "bad"
  /\ RangeA(r) <= RangeB(r, S)
  /\ RangeA(r) < S

\* C10: Range bytes=a-b with 0 <= a <= b and a < S on an existing in-root file
\* of size S is answered 206 with Content-Range a-min(b,S-1)/S, Content-Length
\* min(b,S-1)-a+1 and exactly the bytes a..min(b,S-1); an omitted start is 0
\* and an omitted end S-1.
RangeServed ==
  \A h \in Handlers :
    (/\ pc[h] = "idle"
     /\ req[h].kind = "file"
     /\ req[h].path # ""
     /\ Exists(req[h].path)
     /\ InRoot(Resolve(req[h].path))
     /\ GoodRange(req[h], fsize[Resolve(req[h].path)]))
    => LET S == fsize[Resolve(req[h].path)]
           a == RangeA(req[h])
           e == Min(RangeB(req[h], S), S - 1)
       IN  /\ resp[h].status = 206
           /\ resp[h].crange = Some(<<a, e, S>>)
           /\ resp[h].clen = Some(e - a + 1)
           /\ BodyIs(resp[h].body, a, e)

\* A range reaching past the end of a file larger than one chunk was clamped
\* and written in several chunks.
RangeServedWitness ==
  \E h \in Handlers :
    /\ pc[h] = "idle"
    /\ req[h].kind = "file"
    /\ GoodRange(req[h], fsize["root/a.mp3"])
    /\ req[h].range[1][2].k = "num"
    /\ req[h].range[1][2].n > fsize["root/a.mp3"] - 1
    /\ resp[h].status = 206
    /\ Len(resp[h].body) >= 2

\* The size of the file a path-based request of handler h names.
SizeOf(h) == fsize[Resolve(req[h].path)]

\* C11: whatever the Range header, the start and end of a 206 response on a
\* file of size S >= 1 satisfy 0 <= start <= S-1 and start <= end <= S-1, and
\* Content-Length is between 1 and S.
RangeWithinFile ==
  \A h \in Handlers :
    (/\ pc[h] = "idle"
     /\ req[h].kind = "file"
     /\ resp[h].status = 206
     /\ SizeOf(h) >= 1)
    => LET start == resp[h].crange[1][1]
           end == resp[h].crange[1][2]
       IN  /\ 0 <= start /\ start <= SizeOf(h) - 1
           /\ start <= end /\ end <= SizeOf(h) - 1
           /\ resp[h].clen[1] >= 1 /\ resp[h].clen[1] <= SizeOf(h)

\* The Range header of r is malformed, or names no non-empty span of a file
\* of size S: start > end, or start >= S.
Unsatisfiable(r, S) ==
  /\ r.range # None
  /\ \/ RangeRaises(r.range[1])
     \/ RangeA(r) > RangeB(r, S)
     \/ RangeA(r) >= S

\* C12: a stream request with a malformed or unsatisfiable Range header is
\* answered 416 and no body byte is written.
UnsatisfiableIs416 ==
  \A h \in Handlers :
    (/\ pc[h] = "idle"
     /\ req[h].kind = "file"
     /\ Unsatisfiable(req[h], SizeOf(h)))
    => resp[h].status = 416 /\ resp[h].body = <<>>

\* Handler h answers an audio request in this step: one by path, or one by
\* an id the map holds.
ByPathDone(h) ==
  /\ Accepted(h)
  /\ req'[h].kind \in {"file", "music"}
  /\ req'[h].path # ""

ByIdDone(h) ==
  /\ pc[h] = "lookup"
  /\ pc'[h] = "idle"
  /\ req[h].kind = "byid"
  /\ req[h].id \in DOMAIN id_to_path

StreamDone(h) == ByPathDone(h) \/ ByIdDone(h)

\* The path that request names.
StreamPath(h) == IF ByPathDone(h) THEN req'[h].path ELSE id_to_path[req[h].id]

\* body is the S bytes of a file, in order, in chunks of at most ChunkSize.
WholeBody(body, S) == IF S = 0 THEN body = <<>> ELSE BodyIs(body, 0, S - 1)

\* C13: a stream request without a Range header for an existing in-root file
\* of size S is answered 200 with Content-Length S and Accept-Ranges, and its
\* body is the S bytes of the file in order, in chunks of at most 8192 bytes.
WholeFileServed ==
  [][\A h \in Handlers :
       (/\ StreamDone(h)
        /\ req'[h].range = None
        /\ Exists(StreamPath(h))
        /\ InRoot(Resolve(StreamPath(h))))
       => /\ resp'[h].status = 200
          /\ resp'[h].clen = Some(fsize[Resolve(StreamPath(h))])
          /\ resp'[h].acceptRanges
          /\ WholeBody(resp'[h].body, fsize[Resolve(StreamPath(h))])]_vars

\* A file of more than two chunks was streamed whole.
WholeFileServedWitness ==
  \E h \in Handlers :
    /\ pc[h] = "idle"
    /\ IsAudio(req[h])
    /\ req[h].range = None
    /\ resp[h].status = 200
    /\ Len(resp[h].body) >= 3

\* C14: a stream request, by path or by an id the map still holds, for a path
\* under the music root at which no file exists is answered 404 and writes
\* no body.
MissingIs404 ==
  [][\A h \in Handlers :
       (/\ StreamDone(h)
        /\ InRoot(StreamPath(h))
        /\ ~Exists(StreamPath(h)))
       => /\ resp'[h].status = 404
          /\ resp'[h].body = <<>>]_vars

\* An id left in the map by an earlier scan was requested after its file was
\* deleted, and got 404 without a rescan.
MissingIs404Witness ==
  \E h \in Handlers :
    /\ pc[h] = "idle"
    /\ req[h].kind = "byid"
    /\ req[h].id \in DOMAIN id_to_path
    /\ InRoot(id_to_path[req[h].id])
    /\ ~Exists(id_to_path[req[h].id])
    /\ resp[h].scans = 0
    /\ resp[h].status = 404

\* C15: a scan that finds no music root installs the empty song sequence and
\* the empty map in place of what was installed, and the list or scan request
\* it serves is answered 200 with the empty list.
MissingRootIsEmptyIndex ==
  \A h \in Handlers :
    /\ pc[h] = "nodir_map" => songs_cache = Some(<<>>)
    /\ (pc[h] \in {"scan_ret", "lookup"} /\ resp[h].nodir) =>
         songs_cache = Some(<<>>) /\ id_to_path = EmptyMap
    /\ (pc[h] = "idle" /\ req[h].kind \in {"list", "scan"} /\ resp[h].nodir) =>
         /\ resp[h].status = 200
         /\ resp[h].listed = Some(<<>>)
         /\ songs_cache = Some(<<>>)
         /\ id_to_path = EmptyMap

\* A forced rescan found the root gone while a snapshot was installed, and
\* was answered 200 with the empty list.
MissingRootIsEmptyIndexWitness ==
  \E h \in Handlers :
    /\ pc[h] = "idle"
    /\ req[h].kind = "scan"
    /\ resp[h].nodir
    /\ resp[h].hadCache
    /\ resp[h].status = 200
    /\ resp[h].listed = Some(<<>>)
    /\ id_to_path = EmptyMap

\* Handler h answers an artwork request in this step for an id the map holds.
ArtDone(h) ==
  /\ \/ Accepted(h) /\ req'[h].kind = "art"
     \/ pc[h] = "lookup" /\ req[h].kind = "art"
  /\ pc'[h] = "idle"
  /\ req'[h].id \in DOMAIN id_to_path

\* C16: an artwork request for an id the map resolves, whose file has no tags,
\* has tags without a picture, or cannot be opened or parsed (corrupt, or
\* deleted since the scan), is answered 404.
NoArtIs404 ==
  [][\A h \in Handlers :
       (ArtDone(h) /\ Content(id_to_path[req'[h].id]) # "art")
       => resp'[h].status = 404]_vars

\* C17: the id of a record is the digest of the canonical path of its file and
\* of nothing else: every record a scan appends, in a first build, a forced
\* rescan or a rescan on a miss, has id Sha1(Resolve(path)) and the map sends
\* that id to the path; the fallback record has the same id; two paths get
\* the same id exactly when their canonical paths are the same.
IdIsCanonicalDigest ==
  [][\A h \in Handlers :
       VisitStep(h) =>
         LET p == Head(todo[h])
             new == SubSeq(songs'[h], Len(songs[h]) + 1, Len(songs'[h]))
         IN  /\ songs'[h] = songs[h] \o new
             /\ \A i \in 1..Len(new) :
                  /\ new[i].filepath = p
                  /\ new[i].id = Sha1(Resolve(p))
                  /\ new[i].id = FallbackRecord(p).id
                  /\ new[i].id \in DOMAIN id_to_path'
                  /\ id_to_path'[new[i].id] = p
                  /\ \A j \in 1..Len(songs[h]) :
                       (songs[h][j].id = new[i].id) <=>
                         (Sha1(Resolve(songs[h][j].filepath)) = Sha1(Resolve(p)))]_vars

\* An installed snapshot holds a file and a symbolic link to it under one id,
\* and a rescan on an id miss has rebuilt it.
IdIsCanonicalDigestWitness ==
  \E h \in Handlers :
    /\ pc[h] = "idle"
    /\ req[h].kind \in {"byid", "art"}
    /\ resp[h].scans = 1
    /\ songs_cache # None
    /\ \E i, j \in 1..Len(songs_cache[1]) :
         /\ i # j
         /\ songs_cache[1][i].id = songs_cache[1][j].id
         /\ songs_cache[1][i].filepath # songs_cache[1][j].filepath

\* The requests on an /api/ path
IsApi(r) == r.kind \in {"list", "scan", "byid", "art", "file"}

\* C18: every response to a request on an /api/ path carries the CORS
\* headers, the 4xx and 5xx responses too.
ApiResponsesHaveCors ==
  \A h \in Handlers :
    (pc[h] = "idle" /\ IsApi(req[h]) /\ resp[h].status # 0) => resp[h].cors

\* Exactly two requests were made, one per thread, each ran a scan, the scan
\* of h began while the scan of the other thread was running, no walk raised,
\* and both requests have been answered.
TwoScansFinished(h) ==
  /\ nReq = 2
  /\ nWalkErr = 0
  /\ \A g \in Handlers : pc[g] = "idle" /\ resp[g].scans = 1
  /\ resp[h].joined

InstallStep(h) ==
  /\ pc[h] = "walk"
  /\ todo[h] = <<>>
  /\ pc'[h] \in {"scan_ret", "lookup"}
  /\ songs_cache' = Some(songs[h])

\* C20: the map that id lookups read is not modified while a scan runs: it
\* changes only in the step that installs the scan's song sequence, together
\* with it.
MapChangesOnlyAtInstall ==
  [][id_to_path' # id_to_path => \E h \in Handlers : InstallStep(h)]_vars

\* mutagen reads the file at p.
Readable(p) == Content(p) \in {"art", "tagged", "untagged"}

\* The installed snapshot has a record of the file at canonical path c as the
\* file is now.
InSnapshot(c) ==
  /\ songs_cache # None
  /\ \E i \in 1..Len(songs_cache[1]) :
       /\ songs_cache[1][i].id = Sha1(c)
       /\ songs_cache[1][i].title = TagTitle(songs_cache[1][i].filepath, fs[c])

\* Handler h answers in this step a stream-by-id request for the id of the
\* readable in-root file c, after a lookup.
IdAnswer(h, c) ==
  /\ pc[h] = "lookup"
  /\ pc'[h] = "idle"
  /\ req[h].kind = "byid"
  /\ req[h].id = Sha1(c)
  /\ Readable(c)

\* The id was in the map when the request came, and no scan ran.
IdHit(h) == resp[h].scans = 0

\* The id was not in the map, and the rescan walked a root that exists and
\* did not change while it ran.
IdMissRescanned(h) ==
  /\ resp[h].scans = 1
  /\ ~resp[h].nodir
  /\ resp[h].fsAt = nFs

Streamed(h, c) == resp'[h].status \in {200, 206} /\ resp'[h].opened = Some(c)

\* C21: the first stream-by-id request for the id of a readable file added
\* under the root after the last scan streams it with 200 or 206: when the
\* map already holds the id and when it does not and the request rescans.
NewFileStreams ==
  [][\A h \in Handlers : \A c \in {"root/a.mp3"} :
       /\ (IdAnswer(h, c) /\ IdHit(h) /\ songs_cache # None /\ ~InSnapshot(c))
            => Streamed(h, c)
       /\ (IdAnswer(h, c) /\ IdMissRescanned(h)) => Streamed(h, c)]_vars

\* The scan of handler h aborts in this step and its request is answered 500.
ScanAborts(h) ==
  /\ pc[h] = "walk"
  /\ pc'[h] = "idle"
  /\ resp'[h].status = 500

\* C22: when a scan aborts part-way through the walk and the request is
\* answered 500, the installed song sequence and the map are what they were
\* before that scan began.
AbortLeavesIndex ==
  [][\A h \in Handlers :
       ScanAborts(h) =>
         /\ songs_cache' = resp[h].preCache
         /\ id_to_path' = resp[h].preMap]_vars

\* The number of bytes in the chunks of body
RECURSIVE BodyBytes(_)
BodyBytes(body) == IF body = <<>> THEN 0 ELSE Head(body).len + BodyBytes(Tail(body))

\* C23: every 200 or 206 audio response writes as many body bytes as its
\* Content-Length header says, for every file size and every Range header
\* answered 206.
BodyMatchesContentLength ==
  \A h \in Handlers :
    (pc[h] = "idle" /\ IsAudio(req[h]) /\ resp[h].status \in {200, 206})
    => BodyBytes(resp[h].body) = resp[h].clen[1]

\* C24: in every installed snapshot the ids of the records are pairwise
\* distinct: no scan appends two records with the same id.
SnapshotIdsDistinct ==
  songs_cache # None =>
    \A i, j \in DOMAIN songs_cache[1] :
      songs_cache[1][i].id = songs_cache[1][j].id => i = j

====
